---- MODULE Spec2Model ----
(***************************************************************************)
(* Model of components/tooltip/index.tsx: the Tooltip wrapper around the   *)
(* rc-tooltip primitive.                                                   *)
(*                                                                         *)
(* JavaScript scalars are written as strings holding their source form:    *)
(* "undefined", "null", "true", "false", "0", "''" (the empty string),     *)
(* "'hi'" (a non-empty string).  A props object is a function whose DOMAIN *)
(* is the set of keys the caller supplied, so `key in props` is            *)
(* key \in DOMAIN props and props.key is Get(props, key).                  *)
(***************************************************************************)
EXTENDS Naturals, Integers, Sequences, FiniteSets, TLC

VARIABLES
    props,            \* the props the caller supplied (fixed after mount)
    direction,        \* ConfigContext.direction
    mounted,          \* has the first render happened
    innerValue,       \* useMergedState's internal state (useState)
    rc,               \* the props handed to <RcTooltip> by the last render
    calls,            \* invocations of props.onOpenChange / props.onVisibleChange, in order
    reports,          \* values the primitive reported through onVisibleChange, in order
    lastAlign,        \* the inputs of the last onPopupAlign event
    transformOrigin   \* domNode.style.transformOrigin

vars == <<props, direction, mounted, innerValue, rc, calls, reports, lastAlign, transformOrigin>>

\* Bound on the number of visibility-change reports in one run.
MaxReports == 2

\* Bound on the number of tokens a color string is put together from.
MaxColorParts == 2

\* Bound on the number of keys of a child's style object (the object holding
\* every key is tried besides).
MaxStyleKeys == 2

----------------------------------------------------------------------------
(* JavaScript values *)

Falsy == {"undefined", "null", "false", "0", "''"}

Truthy(x) == x \notin Falsy

Get(p, k) == IF k \in DOMAIN p THEN p[k] ELSE "undefined"

\* { ...a, ...b }
Spread(a, b) ==
    [k \in (DOMAIN a) \cup (DOMAIN b) |-> IF k \in DOMAIN b THEN b[k] ELSE a[k]]

\* const { key, ...rest } = p
Omit(p, keys) == [k \in (DOMAIN p) \ keys |-> p[k]]

EmptyObject == [k \in {} |-> "undefined"]

\* an object holding the keys of c that are not marked absent
MkObject(c) == [k \in {x \in DOMAIN c : c[x] # "absent"} |-> c[k]]

----------------------------------------------------------------------------
(* useMergedState(false, { value, defaultValue }) *)

\* variant: the deprecated `visible` wins over `open`
valueOption_LegacyFirst(p) ==
    IF Get(p, "visible") # "undefined" THEN Get(p, "visible") ELSE Get(p, "open")

valueOption(p) ==
    IF Get(p, "open") # "undefined" THEN Get(p, "open") ELSE Get(p, "visible")

defaultValueOption(p) ==
    IF Get(p, "defaultOpen") # "undefined"
    THEN Get(p, "defaultOpen")
    ELSE Get(p, "defaultVisible")

\* the useState initializer of the hook
useMergedStateInit(defaultStateValue, value, defaultValue) ==
    IF value # "undefined" THEN value
    ELSE IF defaultValue # "undefined" THEN defaultValue
    ELSE defaultStateValue

\* variant: the internal state wins over the controlled value
useMergedState_InnerWins(value, inner) == inner

\* the merged value the hook returns on a render
useMergedState(value, inner) ==
    IF value # "undefined" THEN value ELSE inner

----------------------------------------------------------------------------
(* Tooltip *)

isNoTitle(p) ==
    /\ ~Truthy(Get(p, "title"))
    /\ ~Truthy(Get(p, "overlay"))
    /\ Get(p, "title") # "0"

\* the argument onOpenChange gives to setOpen
setOpenArg(p, vis) == IF isNoTitle(p) THEN "false" ELSE vis

\* variant: the callbacks run whether or not there is content
notify_Unconditional(p, vis) ==
    (IF Get(p, "onOpenChange") # "undefined"
     THEN <<[cb |-> "onOpenChange", arg |-> vis]>> ELSE <<>>)
    \o
    (IF Get(p, "onVisibleChange") # "undefined"
     THEN <<[cb |-> "onVisibleChange", arg |-> vis]>> ELSE <<>>)

\* variant: the deprecated callback runs first
notify_LegacyFirst(p, vis) ==
    IF ~isNoTitle(p)
    THEN (IF Get(p, "onVisibleChange") # "undefined"
          THEN <<[cb |-> "onVisibleChange", arg |-> vis]>> ELSE <<>>)
         \o
         (IF Get(p, "onOpenChange") # "undefined"
          THEN <<[cb |-> "onOpenChange", arg |-> vis]>> ELSE <<>>)
    ELSE <<>>

\* the callback invocations onOpenChange makes, in order
notify(p, vis) ==
    IF ~isNoTitle(p)
    THEN (IF Get(p, "onOpenChange") # "undefined"
          THEN <<[cb |-> "onOpenChange", arg |-> vis]>> ELSE <<>>)
         \o
         (IF Get(p, "onVisibleChange") # "undefined"
          THEN <<[cb |-> "onVisibleChange", arg |-> vis]>> ELSE <<>>)
    ELSE <<>>

\* variant: title || overlay || ''
getOverlay_TitleFirst(p) ==
    IF Get(p, "title") = "0" THEN Get(p, "title")
    ELSE IF Truthy(Get(p, "title")) THEN Get(p, "title")
    ELSE IF Truthy(Get(p, "overlay")) THEN Get(p, "overlay")
    ELSE "''"

getOverlay(p) ==
    IF Get(p, "title") = "0" THEN Get(p, "title")
    ELSE IF Truthy(Get(p, "overlay")) THEN Get(p, "overlay")
    ELSE IF Truthy(Get(p, "title")) THEN Get(p, "title")
    ELSE "''"

\* variant: the tooltip is not hidden when there is no title
tempOpen_NeverHidden(p, open) == open

tempOpen(p, open) ==
    IF "open" \notin DOMAIN p /\ "visible" \notin DOMAIN p /\ isNoTitle(p)
    THEN "false"
    ELSE open

----------------------------------------------------------------------------
(* Strings, class names, elements *)

\* s.indexOf(sub) >= 0
Contains(s, sub) ==
    \E i \in 1..(Len(s) + 1 - Len(sub)) : SubSeq(s, i, i + Len(sub) - 1) = sub

\* A className is the sequence of its class names; null is the empty one.
NullClassName == <<>>

\* classNames(a, b): the truthy arguments joined in order
classNames(a, b) == a \o b

\* cloneElement(element, extra)
cloneElement(element, extra) ==
    [type |-> element.type, props |-> Spread(element.props, extra)]

----------------------------------------------------------------------------
(* splitObject, PresetColorRegex, getDisabledCompatibleChildren *)

\* obj is a props object and key the style key: obj[key] may be missing
splitObject(obj, keys) ==
    [ picked  |-> [k \in (DOMAIN obj) \cap keys |-> obj[k]],
      omitted |-> [k \in (DOMAIN obj) \ keys |-> obj[k]] ]

PresetColorTypes ==
    { "pink", "red", "yellow", "orange", "cyan", "green", "blue", "purple",
      "geekblue", "magenta", "volcano", "gold", "lime" }

\* variant: the regular expression without the (-inverse)? group
PresetColorRegex_NoInverse(color) ==
    \E preset \in PresetColorTypes : color = preset

\* new RegExp(`^(${PresetColorTypes.join('|')})(-inverse)?$`).test(color)
PresetColorRegex(color) ==
    \E preset \in PresetColorTypes :
        color = preset \/ color = preset \o "-inverse"

LayoutKeys ==
    {"position", "left", "right", "top", "bottom", "float", "display", "zIndex"}

\* variant: loading wraps every control, not the switch alone
isDisabledCompatible_AnyLoading(element) ==
    /\ element.type \in {"Button", "button", "Switch", "Radio"}
    /\ (Truthy(Get(element.props, "disabled")) \/ Truthy(Get(element.props, "loading")))

\* the condition under which the child is wrapped
isDisabledCompatible(element) ==
    \/ /\ element.type \in {"Button", "button"}
       /\ Truthy(Get(element.props, "disabled"))
    \/ /\ element.type = "Switch"
       /\ (Truthy(Get(element.props, "disabled")) \/ Truthy(Get(element.props, "loading")))
    \/ /\ element.type = "Radio"
       /\ Truthy(Get(element.props, "disabled"))

getDisabledCompatibleChildren(element, prefixCls) ==
    IF isDisabledCompatible(element)
    THEN LET style == IF "style" \in DOMAIN element.props
                      THEN element.props.style ELSE EmptyObject
             split == splitObject(style, LayoutKeys)
             spanStyle ==
                 Spread(Spread([display |-> "inline-block"], split.picked),
                        [ cursor |-> "not-allowed",
                          width  |-> IF Truthy(Get(element.props, "block"))
                                     THEN "100%" ELSE "null" ])
             buttonStyle == Spread(split.omitted, [pointerEvents |-> "none"])
             child == cloneElement(element,
                                   [style |-> buttonStyle, className |-> NullClassName])
             ownClass == IF "className" \in DOMAIN element.props
                         THEN element.props.className ELSE <<>>
         IN  [ type  |-> "span",
               props |-> [ style     |-> spanStyle,
                           className |-> classNames(ownClass,
                               <<prefixCls \o "-disabled-compatible-wrapper">>),
                           children  |-> child ] ]
    ELSE element

----------------------------------------------------------------------------
(* Placements *)

\* getPlacements(...) of _util/placements: the twelve named placements with
\* their alignment points, in key order
getPlacements(arrowPointAtCenter, autoAdjustOverflow) ==
    << [key |-> "left",        points |-> <<"cr", "cl">>],
       [key |-> "right",       points |-> <<"cl", "cr">>],
       [key |-> "top",         points |-> <<"bc", "tc">>],
       [key |-> "bottom",      points |-> <<"tc", "bc">>],
       [key |-> "topLeft",     points |-> <<"bl", "tl">>],
       [key |-> "leftTop",     points |-> <<"tr", "tl">>],
       [key |-> "topRight",    points |-> <<"br", "tr">>],
       [key |-> "rightTop",    points |-> <<"tl", "tr">>],
       [key |-> "bottomRight", points |-> <<"tr", "br">>],
       [key |-> "rightBottom", points |-> <<"bl", "br">>],
       [key |-> "bottomLeft",  points |-> <<"tl", "bl">>],
       [key |-> "leftBottom",  points |-> <<"br", "bl">>] >>

\* a placement table is the sequence of its entries in Object.keys order
getTooltipPlacements(p) ==
    IF "builtinPlacements" \in DOMAIN p
    THEN p.builtinPlacements
    ELSE getPlacements(Get(p, "arrowPointAtCenter"), Get(p, "autoAdjustOverflow"))

\* Object.keys(placements).find(key => points match): 0 when there is none
findPlacement(placements, align) ==
    LET hits == { i \in 1..Len(placements) :
                    /\ placements[i].points[1] = align.points[1]
                    /\ placements[i].points[2] = align.points[2] }
    IN  IF hits = {} THEN 0
        ELSE CHOOSE i \in hits : \A j \in hits : i <= j

Percent50 == [percent |-> 50]

Px(n) == [px |-> n]

\* variant: the first test looks for 'bottom' in place of 'Bottom'
originTop_LowercaseBottom(placement, rect, align) ==
    IF Contains(placement, "top") \/ Contains(placement, "bottom")
    THEN Px(rect.height - align.offset[2])
    ELSE IF Contains(placement, "Top") \/ Contains(placement, "Bottom")
    THEN Px(0 - align.offset[2])
    ELSE Percent50

originTop(placement, rect, align) ==
    IF Contains(placement, "top") \/ Contains(placement, "Bottom")
    THEN Px(rect.height - align.offset[2])
    ELSE IF Contains(placement, "Top") \/ Contains(placement, "bottom")
    THEN Px(0 - align.offset[2])
    ELSE Percent50

originLeft(placement, rect, align) ==
    IF Contains(placement, "left") \/ Contains(placement, "Right")
    THEN Px(rect.width - align.offset[1])
    ELSE IF Contains(placement, "right") \/ Contains(placement, "Left")
    THEN Px(0 - align.offset[1])
    ELSE Percent50

----------------------------------------------------------------------------
(* The render *)

prefixClsOf(p) ==
    IF "prefixCls" \in DOMAIN p THEN p.prefixCls ELSE "ant-tooltip"

\* is props.color a non-empty string
hasColor(p) == "color" \in DOMAIN p /\ p.color # ""

customOverlayClassName(p, dir) ==
    (IF "overlayClassName" \in DOMAIN p THEN p.overlayClassName ELSE <<>>)
    \o (IF dir = "rtl" THEN <<prefixClsOf(p) \o "-rtl">> ELSE <<>>)
    \o (IF hasColor(p) /\ PresetColorRegex(p.color)
        THEN <<prefixClsOf(p) \o "-" \o p.color>> ELSE <<>>)

\* does the render take the branch that injects the color inline
injectsColor(p) == hasColor(p) /\ ~PresetColorRegex(p.color)

\* the keys of the element that hold a style object only when one is defined
colorStyles(p) ==
    IF injectsColor(p)
    THEN [ overlayInnerStyle |->
              Spread(IF "overlayInnerStyle" \in DOMAIN p
                     THEN p.overlayInnerStyle ELSE EmptyObject,
                     [background |-> p.color]),
           arrowContent |->
              [ type  |-> "span",
                props |-> [ className |-> <<prefixClsOf(p) \o "-arrow-content">>,
                            style |-> ("--antd-arrow-background-color" :> p.color) ] ] ]
    ELSE [ arrowContent |->
              [ type  |-> "span",
                props |-> [ className |-> <<prefixClsOf(p) \o "-arrow-content">> ] ] ]

\* the child handed to RcTooltip
renderChild(p, shown) ==
    LET given == IF "children" \in DOMAIN p
                 THEN p.children
                 ELSE [type |-> "span", props |-> EmptyObject]
        child == getDisabledCompatibleChildren(given, prefixClsOf(p))
        childCls ==
            classNames(IF "className" \in DOMAIN child.props
                       THEN child.props.className ELSE <<>>,
                       <<IF "openClassName" \in DOMAIN p
                         THEN p.openClassName ELSE prefixClsOf(p) \o "-open">>)
    IN  IF Truthy(shown) THEN cloneElement(child, [className |-> childCls]) ELSE child

\* <RcTooltip {...otherProps} visible=... onVisibleChange=... overlay=... />
Render(p, inner, dir) ==
    LET open       == useMergedState(valueOption(p), inner)
        otherProps == Omit(p, {"getPopupContainer"})
    IN  Spread(Spread(otherProps,
                 [ prefixCls         |-> prefixClsOf(p),
                   overlayClassName  |-> customOverlayClassName(p, dir),
                   builtinPlacements |-> getTooltipPlacements(p),
                   overlay           |-> getOverlay(p),
                   visible           |-> tempOpen(p, open),
                   onVisibleChange   |-> "onOpenChange",
                   onPopupAlign      |-> "onPopupAlign",
                   children          |-> renderChild(p, tempOpen(p, open)) ]),
               colorStyles(p))

----------------------------------------------------------------------------
(* Initial states: the props a caller may supply *)

OpenOpts == {"absent", "undefined", "true", "false"}
DefaultOpts == {"absent", "true", "false"}
TitleOpts == {"absent", "null", "false", "''", "0", "'hi'"}
OverlayOpts == {"absent", "''", "'ov'"}
CallbackOpts == {"absent", "fn"}

\* domNode.style.transformOrigin before any alignment
NoOrigin == EmptyObject

Unmounted ==
    /\ mounted = FALSE
    /\ innerValue = "undefined"
    /\ rc = EmptyObject
    /\ calls = <<>>
    /\ reports = <<>>
    /\ lastAlign = EmptyObject
    /\ transformOrigin = NoOrigin

\* Tooltip.defaultProps (the keys the model reads)
defaultProps == [arrowPointAtCenter |-> "false", autoAdjustOverflow |-> "true"]

Init ==
    /\ \E o \in OpenOpts, v \in OpenOpts, do \in DefaultOpts, dv \in DefaultOpts,
          t \in TitleOpts, ov \in OverlayOpts,
          oc \in CallbackOpts, vc \in CallbackOpts,
          ao \in CallbackOpts, av \in CallbackOpts :
            props = Spread(defaultProps,
                      MkObject([ open |-> o, visible |-> v,
                                 defaultOpen |-> do, defaultVisible |-> dv,
                                 title |-> t, overlay |-> ov,
                                 onOpenChange |-> oc, onVisibleChange |-> vc,
                                 afterOpenChange |-> ao, afterVisibleChange |-> av ]))
    /\ direction = "ltr"
    /\ Unmounted

----------------------------------------------------------------------------
(* Actions *)

\* the first render: useState runs its initializer, the element is returned
Mount ==
    /\ ~mounted
    /\ mounted' = TRUE
    /\ innerValue' = useMergedStateInit("false", valueOption(props), defaultValueOption(props))
    /\ rc' = Render(props, innerValue', direction)
    /\ UNCHANGED <<props, direction, calls, reports, lastAlign, transformOrigin>>

\* the primitive reports a visibility change; setOpen re-renders
onOpenChange(vis) ==
    /\ mounted
    /\ Len(reports) < MaxReports
    /\ innerValue' = setOpenArg(props, vis)
    /\ calls' = calls \o notify(props, vis)
    /\ reports' = Append(reports, vis)
    /\ rc' = Render(props, innerValue', direction)
    /\ UNCHANGED <<props, direction, mounted, lastAlign, transformOrigin>>

\* the primitive reports an alignment of the popup node
onPopupAlign(rect, align) ==
    /\ mounted
    /\ LET placements == getTooltipPlacements(props)
           i == findPlacement(placements, align)
       IN  transformOrigin' =
               IF i = 0 \/ placements[IF i = 0 THEN 1 ELSE i].key = ""
               THEN transformOrigin
               ELSE [ left |-> originLeft(placements[i].key, rect, align),
                      top  |-> originTop(placements[i].key, rect, align) ]
    /\ lastAlign' = [rect |-> rect, align |-> align, before |-> transformOrigin]
    /\ UNCHANGED <<props, direction, mounted, innerValue, rc, calls, reports>>

Next ==
    \/ Mount
    \/ \E vis \in {"true", "false"} : onOpenChange(vis)

Spec == Init /\ [][Next]_vars

----------------------------------------------------------------------------
(* Renders over the color props *)

ColorTokens == {"blue", "geek", "-inverse", "#123456", "x"}

RECURSIVE Colors(_)
Colors(n) ==
    IF n = 0 THEN {""}
    ELSE Colors(n - 1) \cup { c \o t : c \in Colors(n - 1), t \in ColorTokens }

Optional(present, key, value) == IF present THEN key :> value ELSE EmptyObject

InitColor ==
    /\ \E color \in Colors(MaxColorParts), hasColorKey \in BOOLEAN,
          style \in { EmptyObject, [color |-> "white"], [background |-> "black"] },
          hasStyle \in BOOLEAN, hasClass \in BOOLEAN, hasPrefix \in BOOLEAN :
            /\ (~hasColorKey => color = "")
            /\ (~hasStyle => style = EmptyObject)
            /\ props = Spread(defaultProps,
                         [title |-> "'hi'"]
                         @@ Optional(hasColorKey, "color", color)
                         @@ Optional(hasStyle, "overlayInnerStyle", style)
                         @@ Optional(hasClass, "overlayClassName", <<"custom">>)
                         @@ Optional(hasPrefix, "prefixCls", "my-tip"))
    /\ direction \in {"ltr", "rtl"}
    /\ Unmounted

SpecColor == InitColor /\ [][Mount]_vars

----------------------------------------------------------------------------
(* Renders over the child element *)

ChildTypes == {"Button", "button", "Switch", "Radio", "span", "input"}

StyleKeys == LayoutKeys \cup {"color", "cursor", "pointerEvents", "width"}

\* the style objects tried: up to MaxStyleKeys keys, and every key at once
ChildStyles ==
    { [k \in S |-> "child-" \o k] :
        S \in { T \in SUBSET StyleKeys : Cardinality(T) <= MaxStyleKeys \/ T = StyleKeys } }

InitChild ==
    /\ \E type \in ChildTypes, disabled \in {"absent", "true", "false"},
          loading \in {"absent", "true"}, block \in {"absent", "true"},
          style \in ChildStyles, hasStyle \in BOOLEAN, hasClass \in BOOLEAN,
          defaultOpen \in {"absent", "true"} :
            /\ (~hasStyle => style = EmptyObject)
            /\ props = Spread(defaultProps,
                         MkObject([title |-> "'hi'", defaultOpen |-> defaultOpen])
                         @@ [ children |->
                                [ type  |-> type,
                                  props |-> MkObject([ disabled |-> disabled,
                                                       loading |-> loading,
                                                       block |-> block ])
                                            @@ Optional(hasStyle, "style", style)
                                            @@ Optional(hasClass, "className", <<"btn">>) ] ])
    /\ direction = "ltr"
    /\ Unmounted

SpecChild == InitChild /\ [][Mount]_vars

----------------------------------------------------------------------------
(* Alignment events *)

PlacementNames ==
    { "top", "left", "right", "bottom", "topLeft", "topRight", "bottomLeft",
      "bottomRight", "leftTop", "leftBottom", "rightTop", "rightBottom" }

\* caller-supplied tables: two entries, named freely, on the same or on
\* different alignment points
CustomTables ==
    { t \in { << [key |-> n1, points |-> p1], [key |-> n2, points |-> <<"bc", "tc">>] >> :
                n1 \in PlacementNames \cup {"custom"}, n2 \in {"top", "leftBottom"},
                p1 \in { <<"bc", "tc">>, <<"tl", "bl">> } } :
        t[1].key # t[2].key }

Offsets == {-1, 3}

Rects == { [width |-> 30, height |-> 20], [width |-> 7, height |-> 9] }

InitAlign ==
    /\ \E table \in CustomTables \cup { <<>> }, hasTable \in BOOLEAN :
          /\ (hasTable <=> table # <<>>)
          /\ props = Spread(defaultProps,
                       [title |-> "'hi'", open |-> "true"]
                       @@ Optional(hasTable, "builtinPlacements", table))
    /\ direction = "ltr"
    /\ Unmounted

\* the primitive aligns on the points of one entry of the table, or on points
\* the table does not name
NextAlign ==
    \/ Mount
    \/ \E rect \in Rects, ox \in Offsets, oy \in Offsets :
       \E points \in { getTooltipPlacements(props)[i].points :
                          i \in 1..Len(getTooltipPlacements(props)) }
                      \cup { <<"cc", "cc">> } :
            onPopupAlign(rect, [points |-> points, offset |-> <<ox, oy>>])

SpecAlign == InitAlign /\ [][NextAlign]_vars

----------------------------------------------------------------------------
(* Shared vocabulary of the properties *)

\* title is falsy, overlay is falsy, and title is not the number 0
ContentAbsent ==
    /\ Get(props, "title") \in Falsy \ {"0"}
    /\ Get(props, "overlay") \in Falsy

\* the first defined of open, visible
ControlledValue ==
    IF Get(props, "open") # "undefined" THEN Get(props, "open")
    ELSE Get(props, "visible")

\* the first defined of defaultOpen, defaultVisible, and false otherwise
ResolvedDefault ==
    IF Get(props, "defaultOpen") # "undefined" THEN Get(props, "defaultOpen")
    ELSE IF Get(props, "defaultVisible") # "undefined" THEN Get(props, "defaultVisible")
    ELSE "false"

NoVisibilityKey == "open" \notin DOMAIN props /\ "visible" \notin DOMAIN props

----------------------------------------------------------------------------
(* C1 *)

\* C1 (as stated): whenever the content payload is absent, the `visible` prop
\* handed to RcTooltip is false in every render, also under a controlled
\* open=true or visible=true.
C1_ForcedClosedAlways ==
    (mounted /\ ContentAbsent) => rc.visible = "false"

\* C1 (amended): with the content payload absent, the `visible` prop handed to
\* RcTooltip is false in every render provided neither the `open` nor the
\* `visible` key is among the supplied props; when either key is supplied the
\* merged open state is handed over as it is: the controlled value if one is
\* defined, else the resolved default before any report and false after one.
C1_ForcedClosedWithoutVisibilityKey ==
    (mounted /\ ContentAbsent) =>
        rc.visible =
            IF NoVisibilityKey THEN "false"
            ELSE IF ControlledValue # "undefined" THEN ControlledValue
            ELSE IF reports = <<>> THEN ResolvedDefault
            ELSE "false"

C1_Witness ==
    /\ mounted
    /\ ContentAbsent
    /\ NoVisibilityKey
    /\ Get(props, "defaultOpen") = "true"
    /\ reports = <<"false", "true">>
    /\ rc.visible = "false"

----------------------------------------------------------------------------
(* C2 *)

\* C2: while the content payload is absent, no sequence of reports makes
\* props.onOpenChange or props.onVisibleChange run with true, and each report
\* leaves the internal open state false.
C2_NoTrueNotificationWithoutContent ==
    (mounted /\ ContentAbsent) =>
        /\ \A i \in 1..Len(calls) : calls[i].arg # "true"
        /\ (reports # <<>> => innerValue = "false")

C2_Witness ==
    /\ mounted
    /\ ContentAbsent
    /\ "onOpenChange" \in DOMAIN props
    /\ "onVisibleChange" \in DOMAIN props
    /\ Get(props, "defaultOpen") = "true"
    /\ Len(reports) = MaxReports
    /\ reports[Len(reports)] = "true"
    /\ innerValue = "false"

----------------------------------------------------------------------------
(* C3 *)

LegacyPairs ==
    { <<"visible", "open">>, <<"defaultVisible", "defaultOpen">>,
      <<"onVisibleChange", "onOpenChange">>, <<"afterVisibleChange", "afterOpenChange">> }

\* the same props with every legacy-only member supplied under its modern name
Modernized(p) ==
    LET moved == { pr \in LegacyPairs : pr[1] \in DOMAIN p /\ pr[2] \notin DOMAIN p }
        gone  == { pr[1] : pr \in moved }
        from  == [ m \in { pr[2] : pr \in moved } |->
                     (CHOOSE pr \in moved : pr[2] = m)[1] ]
    IN  [ k \in ((DOMAIN p) \ gone) \cup DOMAIN from |->
            IF k \in DOMAIN from THEN p[from[k]] ELSE p[k] ]

\* the functions a handler run invokes, with their arguments
Invoked(p, vis) ==
    [ i \in 1..Len(notify(p, vis)) |->
        [ fn |-> p[notify(p, vis)[i].cb], arg |-> vis ] ]

\* C3: a Tooltip given only the legacy member of a pair and a Tooltip given
\* only the modern member with the same value, driven by the same reports,
\* have the same open state at mount and after every report, invoke the same
\* callbacks with the same arguments, and hand the primitive the same
\* visibility, content and after-change callback (RcTooltip reads
\* afterVisibleChange).
C3_LegacyEqualsModern ==
    mounted =>
        LET q == Modernized(props)
            modern == Render(q, innerValue, direction)
        IN  /\ useMergedStateInit("false", valueOption(q), defaultValueOption(q))
                 = useMergedStateInit("false", valueOption(props), defaultValueOption(props))
            /\ modern.visible = rc.visible
            /\ modern.overlay = rc.overlay
            /\ \A vis \in {"true", "false"} :
                  /\ setOpenArg(q, vis) = setOpenArg(props, vis)
                  /\ Invoked(q, vis) = Invoked(props, vis)
            /\ Get(modern, "afterVisibleChange") = Get(rc, "afterVisibleChange")

----------------------------------------------------------------------------
(* C4 *)

RECURSIVE C4_ExpectedCalls(_)
C4_ExpectedCalls(rs) ==
    IF rs = <<>> THEN <<>>
    ELSE C4_ExpectedCalls(SubSeq(rs, 1, Len(rs) - 1))
         \o (IF "onOpenChange" \in DOMAIN props
             THEN <<[cb |-> "onOpenChange", arg |-> rs[Len(rs)]]>> ELSE <<>>)
         \o (IF "onVisibleChange" \in DOMAIN props
             THEN <<[cb |-> "onVisibleChange", arg |-> rs[Len(rs)]]>> ELSE <<>>)

\* C4: with the content payload present, every report v runs props.onOpenChange
\* (if supplied) exactly once with v and then props.onVisibleChange (if
\* supplied) exactly once with v, and nothing else runs them: the invocation
\* log is exactly that of the reports so far.
C4_EachReportNotifiesOnceInOrder ==
    (mounted /\ ~ContentAbsent) => calls = C4_ExpectedCalls(reports)

C4_Witness ==
    /\ mounted
    /\ ~ContentAbsent
    /\ "onOpenChange" \in DOMAIN props
    /\ "onVisibleChange" \in DOMAIN props
    /\ reports = <<"true", "false">>
    /\ calls = << [cb |-> "onOpenChange", arg |-> "true"],
                  [cb |-> "onVisibleChange", arg |-> "true"],
                  [cb |-> "onOpenChange", arg |-> "false"],
                  [cb |-> "onVisibleChange", arg |-> "false"] >>

----------------------------------------------------------------------------
(* C5 *)

\* C5: at mount with content present the open state is the first defined of
\* open, visible, defaultOpen, defaultVisible, and false when none is defined.
C5_MountPrecedence ==
    (mounted /\ reports = <<>> /\ ~ContentAbsent) =>
        rc.visible =
            IF Get(props, "open") # "undefined" THEN Get(props, "open")
            ELSE IF Get(props, "visible") # "undefined" THEN Get(props, "visible")
            ELSE IF Get(props, "defaultOpen") # "undefined" THEN Get(props, "defaultOpen")
            ELSE IF Get(props, "defaultVisible") # "undefined" THEN Get(props, "defaultVisible")
            ELSE "false"

C5_Witness ==
    /\ mounted
    /\ reports = <<>>
    /\ ~ContentAbsent
    /\ Get(props, "open") = "false"
    /\ Get(props, "visible") = "true"
    /\ Get(props, "defaultOpen") = "true"
    /\ rc.visible = "false"

----------------------------------------------------------------------------
(* C6 *)

\* C6 (as stated): the payload handed to the primitive is title whenever title
\* is supplied (the number 0 included), overlay only when title is absent, and
\* the empty string when neither is supplied.
C6_TitleTakesPrecedence ==
    mounted =>
        rc.overlay =
            IF Truthy(Get(props, "title")) \/ Get(props, "title") = "0"
            THEN Get(props, "title")
            ELSE IF Truthy(Get(props, "overlay")) THEN Get(props, "overlay")
            ELSE "''"

\* C6 (amended): exactly one value is handed to the primitive as the overlay:
\* title when title is the number 0 (shown as 0, and counting as content
\* present), otherwise overlay when overlay is truthy, otherwise title when
\* title is truthy, otherwise the empty string.
C6_OverlayTakesPrecedence ==
    mounted =>
        /\ rc.overlay =
              IF Get(props, "title") = "0" THEN "0"
              ELSE IF Truthy(Get(props, "overlay")) THEN Get(props, "overlay")
              ELSE IF Truthy(Get(props, "title")) THEN Get(props, "title")
              ELSE "''"
        /\ (Get(props, "title") = "0" /\ NoVisibilityKey /\ reports # <<>>)
              => rc.visible = reports[Len(reports)]

C6_Witness ==
    /\ mounted
    /\ Get(props, "title") = "'hi'"
    /\ Get(props, "overlay") = "'ov'"
    /\ rc.overlay = "'ov'"

----------------------------------------------------------------------------
(* C10 *)

\* C10: with content present and props fixed, after any sequence of reports
\* the rendered open state is the controlled value when open or visible is
\* defined (reports only fire the callbacks), and otherwise the most recently
\* reported value, or the resolved default when nothing was reported yet.
C10_OpenFollowsControlOrLastReport ==
    (mounted /\ ~ContentAbsent) =>
        rc.visible =
            IF ControlledValue # "undefined" THEN ControlledValue
            ELSE IF reports # <<>> THEN reports[Len(reports)]
            ELSE ResolvedDefault

C10_Witness ==
    /\ mounted
    /\ ~ContentAbsent
    /\ Get(props, "visible") = "false"
    /\ "open" \notin DOMAIN props
    /\ "onVisibleChange" \in DOMAIN props
    /\ reports = <<"false", "true">>
    /\ calls[Len(calls)] = [cb |-> "onVisibleChange", arg |-> "true"]
    /\ rc.visible = "false"

----------------------------------------------------------------------------
(* C7 *)

Range(f) == { f[x] : x \in DOMAIN f }

\* the caller's overlayInnerStyle, empty when none was given
C7_CallerStyle ==
    IF "overlayInnerStyle" \in DOMAIN props THEN props.overlayInnerStyle ELSE EmptyObject

\* the overlayInnerStyle the primitive received, empty when none
C7_RenderedStyle ==
    IF "overlayInnerStyle" \in DOMAIN rc THEN rc.overlayInnerStyle ELSE EmptyObject

C7_IsPreset(color) ==
    \E preset \in PresetColorTypes : color \in {preset, preset \o "-inverse"}

C7_HasModifier(color) ==
    (prefixClsOf(props) \o "-" \o color) \in Range(rc.overlayClassName)

C7_HasInlineColor(color) ==
    /\ "background" \in DOMAIN C7_RenderedStyle
    /\ C7_RenderedStyle.background = color

C7_ArrowColored(color) ==
    /\ "style" \in DOMAIN rc.arrowContent.props
    /\ rc.arrowContent.props.style = ("--antd-arrow-background-color" :> color)

\* C7: a preset token, optionally suffixed "-inverse", gives the overlay the
\* class <prefixCls>-<color>, leaves overlayInnerStyle as the caller gave it and
\* the arrow without custom property; any other non-empty color puts itself in
\* the inline background and in --antd-arrow-background-color and adds no class
\* modifier; without a color neither happens.  The class modifier and the
\* injected inline background never occur together.
C7_ColorResolution ==
    mounted =>
        IF "color" \in DOMAIN props /\ props.color # ""
        THEN LET color == props.color IN
             /\ C7_IsPreset(color) =>
                   /\ C7_HasModifier(color)
                   /\ ("overlayInnerStyle" \in DOMAIN rc) = ("overlayInnerStyle" \in DOMAIN props)
                   /\ C7_RenderedStyle = C7_CallerStyle
                   /\ "style" \notin DOMAIN rc.arrowContent.props
             /\ ~C7_IsPreset(color) =>
                   /\ C7_HasInlineColor(color)
                   /\ \A k \in (DOMAIN C7_CallerStyle) \ {"background"} :
                         C7_RenderedStyle[k] = C7_CallerStyle[k]
                   /\ C7_ArrowColored(color)
                   /\ ~C7_HasModifier(color)
             /\ ~(C7_HasModifier(color) /\ C7_HasInlineColor(color))
        ELSE /\ C7_RenderedStyle = C7_CallerStyle
             /\ "style" \notin DOMAIN rc.arrowContent.props
             /\ rc.overlayClassName =
                   (IF "overlayClassName" \in DOMAIN props THEN props.overlayClassName ELSE <<>>)
                   \o (IF direction = "rtl" THEN <<prefixClsOf(props) \o "-rtl">> ELSE <<>>)

C7_Witness ==
    /\ mounted
    /\ Get(props, "color") = "blue-inverse"
    /\ "overlayInnerStyle" \in DOMAIN props
    /\ props.overlayInnerStyle = [color |-> "white"]
    /\ "prefixCls" \notin DOMAIN props
    /\ "ant-tooltip-blue-inverse" \in Range(rc.overlayClassName)
    /\ rc.overlayInnerStyle = [color |-> "white"]

----------------------------------------------------------------------------
(* C8 *)

C8_Given == props.children

C8_WrapperClass == prefixClsOf(props) \o "-disabled-compatible-wrapper"

C8_Wrapped ==
    /\ rc.children.type = "span"
    /\ "className" \in DOMAIN rc.children.props
    /\ C8_WrapperClass \in Range(rc.children.props.className)

C8_Disabled == Get(C8_Given.props, "disabled") = "true"

C8_Loading == Get(C8_Given.props, "loading") = "true"

\* the child as getDisabledCompatibleChildren returned it: the render adds
\* the open class to it when the tooltip is shown
C8_Returned ==
    IF rc.visible = "true"
    THEN [ type  |-> rc.children.type,
           props |-> Spread(rc.children.props,
              [ className |->
                  SubSeq(rc.children.props.className, 1,
                         Len(rc.children.props.className) - 1) ]) ]
    ELSE rc.children

C8_GivenStyle ==
    IF "style" \in DOMAIN C8_Given.props THEN C8_Given.props.style ELSE EmptyObject

C8_GivenClass ==
    IF "className" \in DOMAIN C8_Given.props THEN C8_Given.props.className ELSE <<>>

\* the wrapper takes the child's layout keys and className; the child keeps
\* every other style key, gets pointerEvents 'none' and a null className
C8_Partitioned ==
    LET wrapper == C8_Returned
        inner   == wrapper.props.children
    IN  /\ \A k \in (DOMAIN C8_GivenStyle) \cap LayoutKeys :
              /\ wrapper.props.style[k] = C8_GivenStyle[k]
              /\ k \notin DOMAIN inner.props.style
        /\ \A k \in (DOMAIN C8_GivenStyle) \ (LayoutKeys \cup {"pointerEvents"}) :
              /\ k \in DOMAIN inner.props.style
              /\ inner.props.style[k] = C8_GivenStyle[k]
        /\ DOMAIN inner.props.style =
              ((DOMAIN C8_GivenStyle) \ LayoutKeys) \cup {"pointerEvents"}
        /\ inner.props.style.pointerEvents = "none"
        /\ inner.props.className = NullClassName
        /\ wrapper.props.className = C8_GivenClass \o <<C8_WrapperClass>>
        /\ inner.type = C8_Given.type

\* C8 (as stated): the child is wrapped in the disabled-compatible span if and
\* only if it is a disabled or loading button, switch or radio.
C8_WrappedIffDisabledOrLoading ==
    mounted =>
        ( C8_Wrapped <=>
            /\ C8_Given.type \in {"Button", "button", "Switch", "Radio"}
            /\ (C8_Disabled \/ C8_Loading) )

\* C8 (amended): the child is wrapped in the disabled-compatible span if and
\* only if it is a disabled button (the library's Button or a native button),
\* a disabled or loading switch, or a disabled radio; loading alone wraps only
\* a switch.  Any other child is returned unchanged.  A wrapped child's style
\* is partitioned as C8_Partitioned says.
C8_WrappedIffDisabledControl ==
    mounted =>
        LET wraps == \/ C8_Given.type \in {"Button", "button"} /\ C8_Disabled
                     \/ C8_Given.type = "Switch" /\ (C8_Disabled \/ C8_Loading)
                     \/ C8_Given.type = "Radio" /\ C8_Disabled
        IN  /\ C8_Wrapped <=> wraps
            /\ wraps => C8_Partitioned
            /\ (~wraps /\ rc.visible = "false") => rc.children = C8_Given
            /\ (~wraps /\ rc.visible = "true") =>
                  rc.children = [ type  |-> C8_Given.type,
                                  props |-> Spread(C8_Given.props,
                                     [className |-> C8_GivenClass
                                                    \o <<prefixClsOf(props) \o "-open">>]) ]

C8_Witness ==
    /\ mounted
    /\ C8_Given.type = "Switch"
    /\ C8_Loading
    /\ ~C8_Disabled
    /\ C8_GivenStyle = [position |-> "child-position", color |-> "child-color"]
    /\ C8_Wrapped
    /\ rc.children.props.style.position = "child-position"
    /\ rc.children.props.children.props.style =
          [color |-> "child-color", pointerEvents |-> "none"]

----------------------------------------------------------------------------
(* C9 *)

C9_Table == rc.builtinPlacements

\* the first entry of the active table on the reported alignment points
C9_Matches ==
    { i \in 1..Len(C9_Table) : C9_Table[i].points = lastAlign.align.points }

C9_First == CHOOSE i \in C9_Matches : \A j \in C9_Matches : i <= j

C9_Vertical(name) ==
    IF name \in {"top", "topLeft", "topRight", "leftBottom", "rightBottom"}
    THEN [px |-> lastAlign.rect.height - lastAlign.align.offset[2]]
    ELSE IF name \in {"bottom", "bottomLeft", "bottomRight", "leftTop", "rightTop"}
    THEN [px |-> 0 - lastAlign.align.offset[2]]
    ELSE [percent |-> 50]

C9_Horizontal(name) ==
    IF name \in {"left", "leftTop", "leftBottom", "topRight", "bottomRight"}
    THEN [px |-> lastAlign.rect.width - lastAlign.align.offset[1]]
    ELSE IF name \in {"right", "rightTop", "rightBottom", "topLeft", "bottomLeft"}
    THEN [px |-> 0 - lastAlign.align.offset[1]]
    ELSE [percent |-> 50]

\* C9: after an alignment event the transform-origin is unchanged when no
\* entry of the active table has the reported points; otherwise, when the
\* first such entry bears one of the twelve built-in names, the vertical and
\* horizontal origins are the ones the name stands for.
C9_TransformOrigin ==
    lastAlign # EmptyObject =>
        IF C9_Matches = {}
        THEN transformOrigin = lastAlign.before
        ELSE C9_Table[C9_First].key \in PlacementNames =>
                transformOrigin = [ left |-> C9_Horizontal(C9_Table[C9_First].key),
                                    top  |-> C9_Vertical(C9_Table[C9_First].key) ]

C9_Witness ==
    /\ lastAlign # EmptyObject
    /\ "builtinPlacements" \notin DOMAIN props
    /\ lastAlign.align.points = <<"br", "bl">>
    /\ lastAlign.align.offset = <<3, -1>>
    /\ lastAlign.rect = [width |-> 30, height |-> 20]
    /\ transformOrigin = [left |-> [px |-> 27], top |-> [px |-> 21]]

\* an alignment on points the table does not name leaves the origin alone
C9_WitnessNoMatch ==
    /\ lastAlign # EmptyObject
    /\ C9_Matches = {}
    /\ lastAlign.before = [left |-> [px |-> 27], top |-> [px |-> 21]]
    /\ transformOrigin = lastAlign.before

====
